---- MODULE Spec2Model ----
(***************************************************************************)
(* VIN data reconciliation tool (app.py): the Streamlit script that        *)
(* validates three uploaded CSV files and process_files, the pandas        *)
(* pipeline that merges CDK and D2C2 on VIN, classifies every merged row,  *)
(* evaluates the criteria, reconciles the D2C2-only rows against the       *)
(* removed list and returns the sorted report.                             *)
(*                                                                         *)
(* Representation.  A data frame is a sequence of records, one field per   *)
(* column.  A missing cell (NaN) of a text column is the value NaN; a      *)
(* Balance cell is the sequence of its characters and the empty cell is    *)
(* the empty sequence, so that the '$' and ',' stripping and float() are   *)
(* computed character by character.  The text '; '.join(labels) is         *)
(* represented by the sequence of the joined labels.  Row-wise             *)
(* DataFrame.apply is modelled as a map over the rows.                     *)
(***************************************************************************)
EXTENDS Integers, Sequences, FiniteSets, TLC

VARIABLES cdk_file, d2c2_file, removed_file,     \* the three uploads (lines 124-126)
          valid_cdk, valid_d2c2, valid_removed,  \* results of validate_columns
          errors, warned,                        \* st.error messages, st.warning shown
          pc,                                    \* position of the run
          merged_df,                             \* process_files' frame up to line 78
          reconciled_df,                         \* the D2C2-only rows, lines 82-98
          report                                 \* the frame process_files returns

vars == <<cdk_file, d2c2_file, removed_file, valid_cdk, valid_d2c2,
          valid_removed, errors, warned, pc, merged_df, reconciled_df, report>>

(***************************************************************************)
(* Bounds of the explored inputs.                                          *)
(***************************************************************************)
MaxCdk == 2
MaxD2c2 == 2
MaxRemoved == 2

(***************************************************************************)
(* Column schemas.                                                         *)
(***************************************************************************)
expected_columns_cdk == <<"VIN", "Stock #", "Stock  Type", "Status", "Deal  No.", "Balance">>
expected_columns_d2c2 == <<"VIN", "Stock #", "Status">>
expected_columns_removed == <<"STOCK-NO.", "STATUS">>

Range(s) == {s[i] : i \in 1..Len(s)}

NaN == "NaN"
NoBalance == <<>>

isna(x) == x = NaN
notna(x) == x # NaN
isnaBalance(b) == b = NoBalance

(***************************************************************************)
(* Generic sequence helpers.                                               *)
(***************************************************************************)
RECURSIVE FlatMap(_, _)
FlatMap(F(_), s) == IF s = <<>> THEN <<>> ELSE F(Head(s)) \o FlatMap(F, Tail(s))

Map(F(_), s) == [i \in 1..Len(s) |-> F(s[i])]

SeqsUpTo(S, n) == UNION {[1..k -> S] : k \in 0..n}

(***************************************************************************)
(* float(x.replace('$', '').replace(',', ''))                              *)
(***************************************************************************)
DigitChars == <<"0", "1", "2", "3", "4", "5", "6", "7", "8", "9">>
Digits == Range(DigitChars)
DigitVal(c) == (CHOOSE i \in 1..Len(DigitChars) : DigitChars[i] = c) - 1

IsDollar(c) == c = "$"
IsComma(c) == c = ","
NotDollar(c) == ~IsDollar(c)
NotComma(c) == ~IsComma(c)
IsDigit(c) == c \in Digits
IsPoint(c) == c = "."

\* x.replace('$', '').replace(',', '')
StripCurrency(x) == SelectSeq(SelectSeq(x, NotDollar), NotComma)

RECURSIVE DigitsValue(_)
DigitsValue(s) ==
    IF s = <<>> THEN 0 ELSE 10 * DigitsValue(SubSeq(s, 1, Len(s) - 1)) + DigitVal(s[Len(s)])

\* Python float() on the characters the model uses: an optional sign, then
\* "nan", "inf", or decimal digits with at most one point.  Anything else
\* raises ValueError.  A number is kept as its sign and its digits (the
\* value scaled by a power of ten), which decides every comparison with 0.
ParseFloat(s) ==
    LET signed == s # <<>> /\ s[1] \in {"+", "-"}
        neg == signed /\ s[1] = "-"
        body == IF signed THEN Tail(s) ELSE s
        ds == SelectSeq(body, IsDigit)
        ps == SelectSeq(body, IsPoint)
    IN  IF body = <<"n", "a", "n">> THEN [kind |-> "nan", neg |-> neg, mag |-> 0]
        ELSE IF body = <<"i", "n", "f">> THEN [kind |-> "inf", neg |-> neg, mag |-> 0]
        ELSE IF /\ Len(ds) >= 1
                /\ Len(ps) <= 1
                /\ Len(ds) + Len(ps) = Len(body)
             THEN [kind |-> "num", neg |-> neg, mag |-> DigitsValue(ds)]
        ELSE [kind |-> "ValueError", neg |-> FALSE, mag |-> 0]

\* v <= 0 and v > 0 on a float; both are False on nan.
FloatLeqZero(v) ==
    \/ v.kind = "num" /\ (v.neg \/ v.mag = 0)
    \/ v.kind = "inf" /\ v.neg

FloatGtZero(v) ==
    \/ v.kind = "num" /\ ~v.neg /\ v.mag > 0
    \/ v.kind = "inf" /\ ~v.neg

BalanceRaises(b) == ~isnaBalance(b) /\ ParseFloat(StripCurrency(b)).kind = "ValueError"

(***************************************************************************)
(* Column renaming (ColumnNormalizer).                                     *)
(***************************************************************************)
RenameCdk(r) ==
    [VIN |-> r.VIN, StockCdk |-> r.StockNo, StockType |-> r.StockType,
     StatusCdk |-> r.Status, DealNo |-> r.DealNo, Balance |-> r.Balance]

RenameD2c2(r) == [VIN |-> r.VIN, StockD2c2 |-> r.StockNo, StatusD2c2 |-> r.Status]

RenameRemoved(r) == [StockRemoved |-> r.StockNo, StatusRemoved |-> r.Status]

(***************************************************************************)
(* pd.merge(cdk_df, d2c2_df, how='outer', on='VIN'): the join keys in      *)
(* lexicographic order; for each key every pairing of a left row with a    *)
(* right row, or the rows of the only side that has the key with the       *)
(* other side's columns missing.                                           *)
(***************************************************************************)
VinOrder == <<"1FA1", "2FA2", "3FA3">>
VinRank(v) == CHOOSE i \in 1..Len(VinOrder) : VinOrder[i] = v

MissingCdk ==
    [StockCdk |-> NaN, StockType |-> NaN, StatusCdk |-> NaN, DealNo |-> NaN,
     Balance |-> NoBalance]

MissingD2c2 == [StockD2c2 |-> NaN, StatusD2c2 |-> NaN]

RowsOfVin(df, v) == SelectSeq(df, LAMBDA r : r.VIN = v)

OuterMergeKey(left, right, v) ==
    LET L == RowsOfVin(left, v)
        R == RowsOfVin(right, v)
        PairsOf(l) == Map(LAMBDA r : l @@ r, R)
    IN  IF L # <<>> /\ R # <<>> THEN FlatMap(PairsOf, L)
        ELSE IF L # <<>> THEN Map(LAMBDA l : l @@ MissingD2c2, L)
        ELSE Map(LAMBDA r : r @@ MissingCdk, R)

OuterMerge(left, right) ==
    FlatMap(LAMBDA v : OuterMergeKey(left, right, v), VinOrder)

(***************************************************************************)
(* source_designation                                                      *)
(***************************************************************************)
Both == "Appearing in both sources"
CdkOnly == "Appearing only in CDK"
D2c2Only == "Appearing only in D2C2"
Unknown == "Unknown"

source_designation(row) ==
    IF notna(row.StockCdk) /\ notna(row.StockD2c2) THEN Both
    ELSE IF notna(row.StockCdk) /\ isna(row.StockD2c2) THEN CdkOnly
    ELSE IF isna(row.StockCdk) /\ notna(row.StockD2c2) THEN D2c2Only
    ELSE Unknown

(***************************************************************************)
(* check_criteria                                                          *)
(***************************************************************************)
StockTypes == {"NEW", "USED", "F"}
CdkStatuses == {"S", "T"}
InTransit == "InTransit"
MeetsAll == <<"Meets all criteria">>
GStatusInCdk == <<"G Status in CDK">>

L_StockType == "Stock Type"
L_Status == "Status"
L_Deal == "Deal No. is not empty"
L_Balance == "Balance > $0"
L_InTransit == "D2C2 Status InTransit"

BalanceUnmet(b) == isnaBalance(b) \/ FloatLeqZero(ParseFloat(StripCurrency(b)))

unmet_conditions(row) ==
       (IF row.StockType \notin StockTypes THEN <<L_StockType>> ELSE <<>>)
    \o (IF row.StatusCdk \notin CdkStatuses THEN <<L_Status>> ELSE <<>>)
    \o (IF notna(row.DealNo) THEN <<L_Deal>> ELSE <<>>)
    \o (IF BalanceUnmet(row.Balance) THEN <<L_Balance>> ELSE <<>>)
    \o (IF row.StatusD2c2 = InTransit THEN <<L_InTransit>> ELSE <<>>)

check_criteria(row) ==
    IF unmet_conditions(row) # <<>> THEN unmet_conditions(row) ELSE MeetsAll

(***************************************************************************)
(* expected_criteria and 'Expected in Both Sources'                        *)
(***************************************************************************)
BalancePositive(b) == IF isnaBalance(b) THEN FALSE ELSE FloatGtZero(ParseFloat(StripCurrency(b)))

expected_criteria(row) ==
    /\ row.StockType \in StockTypes
    /\ row.StatusCdk \in CdkStatuses
    /\ BalancePositive(row.Balance)
    /\ isna(row.DealNo)
    /\ row.StatusD2c2 # InTransit

expected_in_both(row) == expected_criteria(row) /\ notna(row.StockD2c2)

(***************************************************************************)
(* Removal reconciliation.                                                 *)
(***************************************************************************)
MatchAndG == "Match and G"
MatchButNotG == "Match but not G"
NoMatch == "No Match"
MissingRemoved == [StockRemoved |-> NaN, StatusRemoved |-> NaN]

\* Variant: how='inner', which drops the rows without a match.
LeftMergeRow_inner(l, removed) ==
    LET M == SelectSeq(removed, LAMBDA r : r.StockRemoved = l.StockD2c2)
    IN  Map(LAMBDA r : l @@ r, M)

\* pd.merge(only_in_d2c2, removed_df, left_on='Stock # D2C2',
\*          right_on='Stock # Removed', how='left')
LeftMergeRow(l, removed) ==
    LET M == SelectSeq(removed, LAMBDA r : r.StockRemoved = l.StockD2c2)
    IN  IF M # <<>> THEN Map(LAMBDA r : l @@ r, M) ELSE <<l @@ MissingRemoved>>

LeftMerge(left, removed) == FlatMap(LAMBDA l : LeftMergeRow(l, removed), left)

\* Variant: the status compared with a lower-case 'g'.
removed_match_status_lowercase(row) ==
    IF notna(row.StockRemoved) /\ row.StatusRemoved = "g" THEN MatchAndG
    ELSE IF notna(row.StockRemoved) THEN MatchButNotG
    ELSE NoMatch

removed_match_status(row) ==
    IF notna(row.StockRemoved) /\ row.StatusRemoved = "G" THEN MatchAndG
    ELSE IF notna(row.StockRemoved) THEN MatchButNotG
    ELSE NoMatch

\* Variant: the override applied to every D2C2-only row.
update_criteria_check_any(row) ==
    IF row.SourceDesignation = D2c2Only THEN GStatusInCdk ELSE row.CriteriaCheck

update_criteria_check(row) ==
    IF row.SourceDesignation = D2c2Only /\ row.RemovedMatchStatus = MatchAndG
    THEN GStatusInCdk
    ELSE row.CriteriaCheck

only_in_d2c2(df) == SelectSeq(df, LAMBDA r : r.SourceDesignation = D2c2Only)
not_only_in_d2c2(df) == SelectSeq(df, LAMBDA r : r.SourceDesignation # D2c2Only)

WithMatchStatus(row) == row @@ [RemovedMatchStatus |-> removed_match_status(row)]
WithUpdatedCriteria(row) == [row EXCEPT !.CriteriaCheck = update_criteria_check(row)]

Reconciled(df, removed) ==
    Map(LAMBDA r : WithUpdatedCriteria(WithMatchStatus(r)),
        LeftMerge(only_in_d2c2(df), removed))

(***************************************************************************)
(* pd.concat and sort_values(by=['Expected in Both Sources', 'VIN'],       *)
(* ascending=[False, True]).                                               *)
(***************************************************************************)
ConcatFill(row) ==
    row @@ [StockRemoved |-> NaN, StatusRemoved |-> NaN, RemovedMatchStatus |-> NaN]

Concat(df, rec) == Map(ConcatFill, not_only_in_d2c2(df)) \o rec

\* Variant: ascending=[True, True].
SortsBefore_ascending(a, b) ==
    \/ ~a.Expected /\ b.Expected
    \/ a.Expected = b.Expected /\ VinRank(a.VIN) < VinRank(b.VIN)

SortsBefore(a, b) ==
    \/ a.Expected /\ ~b.Expected
    \/ a.Expected = b.Expected /\ VinRank(a.VIN) < VinRank(b.VIN)

RECURSIVE InsertSorted(_, _)
InsertSorted(x, s) ==
    IF s = <<>> THEN <<x>>
    ELSE IF SortsBefore(x, Head(s)) THEN <<x>> \o s
    ELSE <<Head(s)>> \o InsertSorted(x, Tail(s))

RECURSIVE SortValues(_)
SortValues(df) ==
    IF df = <<>> THEN <<>>
    ELSE InsertSorted(df[Len(df)], SortValues(SubSeq(df, 1, Len(df) - 1)))

(***************************************************************************)
(* validate_columns                                                        *)
(***************************************************************************)
missing_columns(df, expected_columns) ==
    SelectSeq(expected_columns, LAMBDA col : col \notin df.columns)

validate_columns(df, expected_columns) == missing_columns(df, expected_columns) = <<>>

ErrorsAfter(errs, df, expected_columns, file_name) ==
    IF missing_columns(df, expected_columns) # <<>>
    THEN Append(errs, [file |-> file_name,
                       missing |-> missing_columns(df, expected_columns)])
    ELSE errs

(***************************************************************************)
(* The script (lines 124-148).                                             *)
(***************************************************************************)
\* line 128, else branch: not every file has been uploaded
Warn ==
    /\ pc = "start"
    /\ ~(cdk_file.uploaded /\ d2c2_file.uploaded /\ removed_file.uploaded)
    /\ warned' = TRUE
    /\ pc' = "stopped"
    /\ UNCHANGED <<cdk_file, d2c2_file, removed_file, valid_cdk, valid_d2c2,
                   valid_removed, errors, merged_df, reconciled_df, report>>

\* lines 128-133
ValidateCdk ==
    /\ pc = "start"
    /\ cdk_file.uploaded /\ d2c2_file.uploaded /\ removed_file.uploaded
    /\ valid_cdk' = validate_columns(cdk_file, expected_columns_cdk)
    /\ errors' = ErrorsAfter(errors, cdk_file, expected_columns_cdk, "CDK")
    /\ pc' = "validate_d2c2"
    /\ UNCHANGED <<cdk_file, d2c2_file, removed_file, valid_d2c2, valid_removed,
                   warned, merged_df, reconciled_df, report>>

\* line 134
ValidateD2c2 ==
    /\ pc = "validate_d2c2"
    /\ valid_d2c2' = validate_columns(d2c2_file, expected_columns_d2c2)
    /\ errors' = ErrorsAfter(errors, d2c2_file, expected_columns_d2c2, "D2C2")
    /\ pc' = "validate_removed"
    /\ UNCHANGED <<cdk_file, d2c2_file, removed_file, valid_cdk, valid_removed,
                   warned, merged_df, reconciled_df, report>>

\* line 135
ValidateRemoved ==
    /\ pc = "validate_removed"
    /\ valid_removed' = validate_columns(removed_file, expected_columns_removed)
    /\ errors' = ErrorsAfter(errors, removed_file, expected_columns_removed,
                             "Removed Vehicles")
    /\ pc' = "gate"
    /\ UNCHANGED <<cdk_file, d2c2_file, removed_file, valid_cdk, valid_d2c2,
                   warned, merged_df, reconciled_df, report>>

\* Variant: the removed list's check left out of the condition.
Gate_ignores_removed ==
    /\ pc = "gate"
    /\ pc' = IF valid_cdk /\ valid_d2c2 THEN "process_files" ELSE "stopped"
    /\ UNCHANGED <<cdk_file, d2c2_file, removed_file, valid_cdk, valid_d2c2,
                   valid_removed, errors, warned, merged_df, reconciled_df, report>>

\* lines 137-138: the core is called only when the three checks passed
Gate ==
    /\ pc = "gate"
    /\ pc' = IF valid_cdk /\ valid_d2c2 /\ valid_removed THEN "process_files" ELSE "stopped"
    /\ UNCHANGED <<cdk_file, d2c2_file, removed_file, valid_cdk, valid_d2c2,
                   valid_removed, errors, warned, merged_df, reconciled_df, report>>

(***************************************************************************)
(* process_files (lines 18-106), one action per statement group.           *)
(***************************************************************************)
unchangedScript ==
    UNCHANGED <<cdk_file, d2c2_file, removed_file, valid_cdk, valid_d2c2,
                valid_removed, errors, warned>>

cdk_df == Map(RenameCdk, cdk_file.rows)
d2c2_df == Map(RenameD2c2, d2c2_file.rows)
removed_df == Map(RenameRemoved, removed_file.rows)

\* lines 20-30
Merge ==
    /\ pc = "process_files"
    /\ merged_df' = OuterMerge(cdk_df, d2c2_df)
    /\ pc' = "designate"
    /\ UNCHANGED <<reconciled_df, report>>
    /\ unchangedScript

\* lines 33-42
Designate ==
    /\ pc = "designate"
    /\ merged_df' = Map(LAMBDA r : r @@ [SourceDesignation |-> source_designation(r)],
                        merged_df)
    /\ pc' = "criteria"
    /\ UNCHANGED <<reconciled_df, report>>
    /\ unchangedScript

\* lines 45-66; float() raising ValueError on a row ends the run
CheckCriteria ==
    /\ pc = "criteria"
    /\ IF \E i \in 1..Len(merged_df) : BalanceRaises(merged_df[i].Balance)
       THEN /\ pc' = "raised"
            /\ UNCHANGED merged_df
       ELSE /\ merged_df' = Map(LAMBDA r : r @@ [CriteriaCheck |-> check_criteria(r)],
                                merged_df)
            /\ pc' = "expected"
    /\ UNCHANGED <<reconciled_df, report>>
    /\ unchangedScript

\* lines 69-78
ExpectedInBoth ==
    /\ pc = "expected"
    /\ IF \E i \in 1..Len(merged_df) : BalanceRaises(merged_df[i].Balance)
       THEN /\ pc' = "raised"
            /\ UNCHANGED merged_df
       ELSE /\ merged_df' = Map(LAMBDA r : r @@ [Expected |-> expected_in_both(r)],
                                merged_df)
            /\ pc' = "reconcile"
    /\ UNCHANGED <<reconciled_df, report>>
    /\ unchangedScript

\* lines 81-98
Reconcile ==
    /\ pc = "reconcile"
    /\ reconciled_df' = Reconciled(merged_df, removed_df)
    /\ pc' = "assemble"
    /\ UNCHANGED <<merged_df, report>>
    /\ unchangedScript

\* lines 101-106 and the return to line 138.  The frame that process_files
\* returns is report; merged_df keeps the frame of line 78.
Assemble ==
    /\ pc = "assemble"
    /\ report' = SortValues(Concat(merged_df, reconciled_df))
    /\ pc' = "done"
    /\ UNCHANGED <<merged_df, reconciled_df>>
    /\ unchangedScript

NextCore == Merge \/ Designate \/ CheckCriteria \/ ExpectedInBoth \/ Reconcile \/ Assemble

Next == Warn \/ ValidateCdk \/ ValidateD2c2 \/ ValidateRemoved \/ Gate \/ NextCore

(***************************************************************************)
(* Inputs.                                                                 *)
(***************************************************************************)
Bal500 == <<"$", "5", "0", "0", ".", "0", "0">>
Bal1234 == <<"$", "1", ",", "2", "3", "4", ".", "5", "6">>
BalZero == <<"$", "0", ".", "0", "0">>
BalNeg == <<"-", "$", "5", ".", "0", "0">>
BalText == <<"T", "B", "D">>
BalNan == <<"$", "n", "a", "n">>

CdkRow(v, s, t, st, d, b) ==
    [VIN |-> v, StockNo |-> s, StockType |-> t, Status |-> st, DealNo |-> d, Balance |-> b]

\* Rows of the multi-row inputs: a vehicle that meets every criterion, with
\* and without its stock number, and one that fails criteria 1-4.
CdkRowsCore ==
    {CdkRow(v, s, "NEW", "S", NaN, Bal500) : v \in {"1FA1", "2FA2"}, s \in {"C1", NaN}}
    \cup {CdkRow("2FA2", "C1", "DEMO", "G", "D7", BalZero)}

D2c2RowsCore ==
    {[VIN |-> "1FA1", StockNo |-> "S1", Status |-> "InStock"],
     [VIN |-> "2FA2", StockNo |-> "S2", Status |-> "InStock"],
     [VIN |-> "3FA3", StockNo |-> NaN, Status |-> InTransit]}

RemovedRowsCore ==
    {[StockNo |-> "S1", Status |-> "G"], [StockNo |-> "S1", Status |-> "X"]}

\* Rows of the single-record inputs: every combination of field values.
CdkRowsAll ==
    {CdkRow(v, s, t, st, d, b) :
        v \in {"1FA1"}, s \in {"C1", NaN}, t \in {"NEW", "USED", "F", "DEMO", NaN},
        st \in {"S", "T", "G", NaN}, d \in {NaN, "D7"},
        b \in {NoBalance, Bal500, Bal1234, BalZero, BalNeg, BalText, BalNan}}

D2c2RowsAll ==
    {[VIN |-> v, StockNo |-> s, Status |-> st] :
        v \in {"1FA1", "2FA2"}, s \in {"S1", NaN}, st \in {"InStock", InTransit, NaN}}

RemovedRowsAll == {[StockNo |-> "S1", Status |-> st] : st \in {"G", "X"}}

AtMostOne(S) == {<<>>} \cup {<<r>> : r \in S}

File(cols, rows) == [uploaded |-> TRUE, columns |-> cols, rows |-> rows]
NoFile == [uploaded |-> FALSE, columns |-> {}, rows |-> <<>>]

InitResults ==
    /\ errors = <<>>
    /\ warned = FALSE
    /\ merged_df = <<>>
    /\ reconciled_df = <<>>
    /\ report = <<>>

\* process_files entered with three complete files of up to Max* rows
InitCore ==
    /\ cdk_file \in {File(Range(expected_columns_cdk), r) : r \in SeqsUpTo(CdkRowsCore, MaxCdk)}
    /\ d2c2_file \in {File(Range(expected_columns_d2c2), r) : r \in SeqsUpTo(D2c2RowsCore, MaxD2c2)}
    /\ removed_file \in {File(Range(expected_columns_removed), r) :
                            r \in SeqsUpTo(RemovedRowsCore, MaxRemoved)}
    /\ valid_cdk = TRUE /\ valid_d2c2 = TRUE /\ valid_removed = TRUE
    /\ pc = "process_files"
    /\ InitResults

\* process_files entered with at most one row per file, any field values
InitRow ==
    /\ cdk_file \in {File(Range(expected_columns_cdk), r) : r \in AtMostOne(CdkRowsAll)}
    /\ d2c2_file \in {File(Range(expected_columns_d2c2), r) : r \in AtMostOne(D2c2RowsAll)}
    /\ removed_file \in {File(Range(expected_columns_removed), r) : r \in AtMostOne(RemovedRowsAll)}
    /\ valid_cdk = TRUE /\ valid_d2c2 = TRUE /\ valid_removed = TRUE
    /\ pc = "process_files"
    /\ InitResults

\* The script started: each file uploaded or not, with any subset of its
\* columns; a file with all its columns carries rows.
UploadsOf(expected_columns, rowsets) ==
    {NoFile}
    \cup {File(c, <<>>) : c \in (SUBSET Range(expected_columns)) \ {Range(expected_columns)}}
    \cup {File(Range(expected_columns), r) : r \in rowsets}

Init ==
    /\ cdk_file \in UploadsOf(expected_columns_cdk, AtMostOne(CdkRowsCore))
    /\ d2c2_file \in UploadsOf(expected_columns_d2c2, AtMostOne(D2c2RowsCore))
    /\ removed_file \in UploadsOf(expected_columns_removed, AtMostOne(RemovedRowsCore))
    /\ valid_cdk = FALSE /\ valid_d2c2 = FALSE /\ valid_removed = FALSE
    /\ pc = "start"
    /\ InitResults

Spec == Init /\ [][Next]_vars
SpecCore == InitCore /\ [][NextCore]_vars
SpecRow == InitRow /\ [][NextCore]_vars

(***************************************************************************)
(* Vocabulary of the properties, stated on the inputs and the frames.      *)
(***************************************************************************)
Idx(df) == 1..Len(df)
Count(df, P(_)) == Len(SelectSeq(df, P))

CdkVins == {cdk_file.rows[i].VIN : i \in Idx(cdk_file.rows)}
D2c2Vins == {d2c2_file.rows[i].VIN : i \in Idx(d2c2_file.rows)}

CorePcs == {"process_files", "designate", "criteria", "expected", "reconcile",
            "assemble", "done", "raised"}
Designated == pc \in {"criteria", "expected", "reconcile", "assemble", "done", "raised"}
Evaluated == pc \in {"reconcile", "assemble", "done"}
Returned == pc = "done"

CdkColumns == {"StockCdk", "StockType", "StatusCdk", "DealNo", "Balance"}
D2c2Columns == {"StockD2c2", "StatusD2c2"}
MergedColumns ==
    {"VIN"} \cup CdkColumns \cup D2c2Columns \cup {"SourceDesignation", "CriteriaCheck", "Expected"}

HasCdkFields(r) == \E i \in Idx(cdk_file.rows) :
    RenameCdk(cdk_file.rows[i]) = [c \in CdkColumns \cup {"VIN"} |-> r[c]]
HasD2c2Fields(r) == \E i \in Idx(d2c2_file.rows) :
    RenameD2c2(d2c2_file.rows[i]) = [c \in D2c2Columns \cup {"VIN"} |-> r[c]]
NoCdkFields(r) == r.Balance = NoBalance /\ \A c \in CdkColumns \ {"Balance"} : r[c] = NaN
NoD2c2Fields(r) == \A c \in D2c2Columns : r[c] = NaN

\* C1: every merged record of a VIN in both inputs carries both sources'
\* fields and is designated Both; of a VIN in one input only, it has none of
\* the other source's fields and the matching *Only designation, whether or
\* not the row's own stock number is empty.
C1_DesignationByVin ==
    Designated =>
        \A i \in Idx(merged_df) :
            LET r == merged_df[i] IN
            /\ (r.VIN \in CdkVins /\ r.VIN \in D2c2Vins) =>
                   HasCdkFields(r) /\ HasD2c2Fields(r) /\ r.SourceDesignation = Both
            /\ (r.VIN \in CdkVins /\ r.VIN \notin D2c2Vins) =>
                   HasCdkFields(r) /\ NoD2c2Fields(r) /\ r.SourceDesignation = CdkOnly
            /\ (r.VIN \notin CdkVins /\ r.VIN \in D2c2Vins) =>
                   HasD2c2Fields(r) /\ NoCdkFields(r) /\ r.SourceDesignation = D2c2Only

\* The five conditions as the specification words them.
Cond1(r) == r.StockType \in {"NEW", "USED", "F"}
Cond2(r) == r.StatusCdk \in {"S", "T"}
Cond3(r) == r.DealNo = NaN
Cond4(r) == r.Balance # NoBalance /\ FloatGtZero(ParseFloat(StripCurrency(r.Balance)))
Cond5(r) == r.StatusD2c2 # "InTransit"

FailedLabels(r) ==
       (IF Cond1(r) THEN <<>> ELSE <<"Stock Type">>)
    \o (IF Cond2(r) THEN <<>> ELSE <<"Status">>)
    \o (IF Cond3(r) THEN <<>> ELSE <<"Deal No. is not empty">>)
    \o (IF Cond4(r) THEN <<>> ELSE <<"Balance > $0">>)
    \o (IF Cond5(r) THEN <<>> ELSE <<"D2C2 Status InTransit">>)

\* C2: CriteriaCheck is "Meets all criteria" iff none of the five conditions
\* fails, and otherwise exactly the labels of the failed conditions in the
\* fixed order.
C2_CriteriaCheck ==
    Evaluated =>
        \A i \in Idx(merged_df) :
            LET r == merged_df[i] IN
            /\ (r.CriteriaCheck = <<"Meets all criteria">>) <=> (FailedLabels(r) = <<>>)
            /\ FailedLabels(r) # <<>> => r.CriteriaCheck = FailedLabels(r)

\* C3: ExpectedInBothSources holds iff conditions 1, 2, 4, 5 pass, the deal
\* number is absent and the D2C2 stock number is present; equivalently iff
\* CriteriaCheck is "Meets all criteria" and the D2C2 stock number is present.
C3_ExpectedInBoth ==
    Evaluated =>
        \A i \in Idx(merged_df) :
            LET r == merged_df[i] IN
            /\ r.Expected <=> (Cond1(r) /\ Cond2(r) /\ Cond4(r) /\ Cond5(r) /\ Cond3(r)
                               /\ r.StockD2c2 # NaN)
            /\ r.Expected <=> (r.CriteriaCheck = <<"Meets all criteria">> /\ r.StockD2c2 # NaN)

Uninterpretable(b) == b # NoBalance /\ ParseFloat(StripCurrency(b)).kind = "ValueError"

\* C7: a Balance that cannot be read as an amount never aborts the run: the
\* report is returned, the record fails "Balance > $0" and is not expected
\* in both sources.
C7_NoAbort ==
    /\ pc # "raised"
    /\ Returned =>
        \A i \in Idx(report) :
            Uninterpretable(report[i].Balance) =>
                /\ "Balance > $0" \in Range(report[i].CriteriaCheck)
                /\ ~report[i].Expected

\* C10: every record of the report expected in both sources is designated
\* Both and meets all criteria.
C10_ExpectedImpliesBoth ==
    Returned =>
        \A i \in Idx(report) :
            report[i].Expected =>
                /\ report[i].SourceDesignation = "Appearing in both sources"
                /\ report[i].CriteriaCheck = <<"Meets all criteria">>

(***************************************************************************)
(* Fan-out of the two joins, computed from the inputs.                     *)
(***************************************************************************)
RECURSIVE SumOf(_)
SumOf(f) ==
    IF DOMAIN f = {} THEN 0
    ELSE LET x == CHOOSE y \in DOMAIN f : TRUE
         IN  f[x] + SumOf([y \in DOMAIN f \ {x} |-> f[y]])

CdkRowsOf(v) == SelectSeq(cdk_file.rows, LAMBDA c : c.VIN = v)
D2c2RowsOf(v) == SelectSeq(d2c2_file.rows, LAMBDA d : d.VIN = v)
RemovedRowsOf(s) == SelectSeq(removed_file.rows, LAMBDA e : e.StockNo = s)

\* records that one pairing of a CDK stock number and a D2C2 stock number
\* contributes to the report
PairRecords(sc, sd) ==
    IF sc = NaN /\ sd # NaN /\ Len(RemovedRowsOf(sd)) > 1 THEN Len(RemovedRowsOf(sd)) ELSE 1

FanOut(v) ==
    LET C == CdkRowsOf(v)
        D == D2c2RowsOf(v)
    IN  IF C # <<>> /\ D # <<>>
        THEN SumOf([p \in Idx(C) \X Idx(D) |-> PairRecords(C[p[1]].StockNo, D[p[2]].StockNo)])
        ELSE IF C # <<>> THEN Len(C)
        ELSE SumOf([j \in Idx(D) |-> PairRecords(NaN, D[j].StockNo)])

RecordsOf(v) == SelectSeq(report, LAMBDA r : r.VIN = v)
D2c2OnlyVin(v) == v \in D2c2Vins /\ v \notin CdkVins
RemovedHas(s, isG) ==
    \E k \in Idx(removed_file.rows) :
        /\ removed_file.rows[k].StockNo = s
        /\ (removed_file.rows[k].Status = "G") = isG

\* C4 as stated: every record of a D2C2-only VIN whose D2C2 stock number is
\* that of a removed entry with STATUS G is "G Status in CDK" / "Match and
\* G", whatever other removed entries exist.
C4_Original ==
    Returned =>
        \A i \in Idx(report) :
            LET r == report[i] IN
            (D2c2OnlyVin(r.VIN) /\ r.StockD2c2 # NaN /\ RemovedHas(r.StockD2c2, TRUE)) =>
                /\ r.CriteriaCheck = <<"G Status in CDK">>
                /\ r.RemovedMatchStatus = "Match and G"

\* C4 amended: the record that the left join pairs with a removed entry of
\* STATUS G is "G Status in CDK" / "Match and G"; every such pairing has
\* its record; and when no removed entry of the same stock number has
\* another STATUS, every record of that vehicle is.
C4_GOverride ==
    Returned =>
        /\ \A i \in Idx(report) :
               LET r == report[i] IN
               (D2c2OnlyVin(r.VIN) /\ r.StockD2c2 # NaN /\ RemovedHas(r.StockD2c2, TRUE)) =>
                   /\ (r.StockRemoved # NaN /\ r.StatusRemoved = "G") =>
                          /\ r.CriteriaCheck = <<"G Status in CDK">>
                          /\ r.RemovedMatchStatus = "Match and G"
                   /\ ~RemovedHas(r.StockD2c2, FALSE) =>
                          /\ r.CriteriaCheck = <<"G Status in CDK">>
                          /\ r.RemovedMatchStatus = "Match and G"
        /\ \A j \in Idx(d2c2_file.rows) :
               LET d == d2c2_file.rows[j] IN
               (D2c2OnlyVin(d.VIN) /\ d.StockNo # NaN /\ RemovedHas(d.StockNo, TRUE)) =>
                   \E i \in Idx(report) :
                       /\ report[i].VIN = d.VIN
                       /\ report[i].StockD2c2 = d.StockNo
                       /\ report[i].StatusRemoved = "G"
                       /\ report[i].CriteriaCheck = <<"G Status in CDK">>

\* a D2C2-only vehicle overridden through a G entry next to a record of the
\* same vehicle paired with a non-G entry of the same stock number
C4_Witness ==
    /\ Returned
    /\ \E i, j \in Idx(report) :
           /\ D2c2OnlyVin(report[i].VIN)
           /\ report[i].VIN = report[j].VIN
           /\ report[i].CriteriaCheck = <<"G Status in CDK">>
           /\ report[i].RemovedMatchStatus = "Match and G"
           /\ report[j].RemovedMatchStatus = "Match but not G"

FlagsOrdered ==
    \A i, j \in Idx(report) : (i < j) => ~(~report[i].Expected /\ report[j].Expected)

\* C5 as stated: true before false, and strictly increasing VINs among
\* neighbours with the same flag.
C5_Original ==
    Returned =>
        /\ FlagsOrdered
        /\ \A i \in Idx(report) :
               (i < Len(report) /\ report[i].Expected = report[i + 1].Expected) =>
                   VinRank(report[i].VIN) < VinRank(report[i + 1].VIN)

\* C5 amended: true before false, VINs never decreasing among neighbours
\* with the same flag, and equal only when the joins gave that VIN more than
\* one record.
C5_Ordering ==
    Returned =>
        /\ FlagsOrdered
        /\ \A i \in Idx(report) :
               (i < Len(report) /\ report[i].Expected = report[i + 1].Expected) =>
                   /\ VinRank(report[i].VIN) <= VinRank(report[i + 1].VIN)
                   /\ report[i].VIN = report[i + 1].VIN => FanOut(report[i].VIN) > 1

\* both flag values present, a VIN repeated, and the frame before sorting
\* out of order
C5_Witness ==
    /\ Returned
    /\ \E i, j \in Idx(report) : report[i].Expected /\ ~report[j].Expected
    /\ \E i \in Idx(report) : i < Len(report) /\ report[i].VIN = report[i + 1].VIN
    /\ Concat(merged_df, reconciled_df) # report

\* C6 as stated: exactly one record for each VIN of either input, no other.
C6_Original ==
    Returned =>
        /\ \A i \in Idx(report) : report[i].VIN \in CdkVins \cup D2c2Vins
        /\ \A v \in CdkVins \cup D2c2Vins : Len(RecordsOf(v)) = 1

UniqueKeys(v) ==
    /\ Len(CdkRowsOf(v)) <= 1
    /\ Len(D2c2RowsOf(v)) <= 1
    /\ \A j \in Idx(D2c2RowsOf(v)) : Len(RemovedRowsOf(D2c2RowsOf(v)[j].StockNo)) <= 1

\* C6 amended: the records of the report are those of the VINs of either
\* input, at least one each: one per pairing of the VIN's CDK rows with its
\* D2C2 rows, times the matching removed entries when the pairing is
\* designated D2C2-only; exactly one when the keys are not repeated.
C6_RecordsPerVin ==
    Returned =>
        /\ \A i \in Idx(report) : report[i].VIN \in CdkVins \cup D2c2Vins
        /\ \A v \in CdkVins \cup D2c2Vins :
               /\ Len(RecordsOf(v)) >= 1
               /\ Len(RecordsOf(v)) = FanOut(v)
               /\ UniqueKeys(v) => Len(RecordsOf(v)) = 1

\* one VIN with a single record, another multiplied by the joins, a D2C2-only
\* record without a removed entry and a removed entry that matches nothing
C6_Witness ==
    /\ Returned
    /\ \E v, w \in CdkVins \cup D2c2Vins : Len(RecordsOf(v)) = 1 /\ Len(RecordsOf(w)) > 1
    /\ removed_file.rows # <<>>
    /\ \A i \in Idx(report) : report[i].StockRemoved = NaN
    /\ \E i \in Idx(report) : report[i].RemovedMatchStatus = "No Match"

Lacks(f, expected_columns) == Range(expected_columns) \ f.columns
Reported(f, expected_columns, file_name) ==
    Lacks(f, expected_columns) # {} =>
        \E k \in Idx(errors) :
            /\ errors[k].file = file_name
            /\ Range(errors[k].missing) = Lacks(f, expected_columns)

\* C8: the core runs only after the three files were checked and found
\* complete; a file lacking a column has its error reported, with its
\* missing columns, and the core is not entered in that run.
C8_ValidatedBeforeCore ==
    /\ pc \in CorePcs =>
           /\ valid_cdk /\ valid_d2c2 /\ valid_removed
           /\ Lacks(cdk_file, expected_columns_cdk) = {}
           /\ Lacks(d2c2_file, expected_columns_d2c2) = {}
           /\ Lacks(removed_file, expected_columns_removed) = {}
           /\ errors = <<>>
    /\ (pc \in {"gate", "stopped"} /\ ~warned) =>
           /\ Reported(cdk_file, expected_columns_cdk, "CDK")
           /\ Reported(d2c2_file, expected_columns_d2c2, "D2C2")
           /\ Reported(removed_file, expected_columns_removed, "Removed Vehicles")

\* a run stopped with the removed list alone incomplete and reported
C8_Witness ==
    /\ pc = "stopped"
    /\ valid_cdk /\ valid_d2c2 /\ ~valid_removed
    /\ Len(errors) = 1
    /\ errors[1].file = "Removed Vehicles"

\* C9: every record of the report is a record of the evaluated frame with
\* all its columns, ExpectedInBothSources included, unchanged, and with its
\* CriteriaCheck unchanged unless it is D2C2-only and "Match and G".
C9_Frame ==
    Returned =>
        \A i \in Idx(report) :
            LET r == report[i] IN
            \E j \in Idx(merged_df) :
                LET m == merged_df[j] IN
                /\ \A c \in MergedColumns \ {"CriteriaCheck"} : r[c] = m[c]
                /\ \/ r.CriteriaCheck = m.CriteriaCheck
                   \/ /\ r.SourceDesignation = "Appearing only in D2C2"
                      /\ r.RemovedMatchStatus = "Match and G"

\* a report with a record of each kind: not D2C2-only, D2C2-only matched
\* with another status, D2C2-only overridden
C9_Witness ==
    /\ Returned
    /\ \E i \in Idx(report) : report[i].SourceDesignation # "Appearing only in D2C2"
    /\ \E i \in Idx(report) :
           /\ report[i].RemovedMatchStatus = "Match but not G"
           /\ report[i].CriteriaCheck # <<"G Status in CDK">>
    /\ \E i \in Idx(report) : report[i].RemovedMatchStatus = "Match and G"

====
